---- MODULE Spec2Model ----
(***************************************************************************)
(* The two bike-sharing dashboards, dashboard/app.py ("app") and           *)
(* dashboard/app-2.py ("app2"), as a state machine.  One step is one run   *)
(* of the script from top to bottom: load (through st.cache_data), date    *)
(* filter, aggregates, quartile binning, segment labels.                   *)
(*                                                                         *)
(* Dates are day numbers in the CSV files and in the date picker; a parsed *)
(* date (pd.to_datetime) is a timestamp, TicksPerDay ticks per day.        *)
(* Quartile cut points are kept multiplied by 4, which makes the linear    *)
(* interpolation of Series.quantile exact in the integers.                 *)
(* Columns no modelled step reads (temp, hum, casual, registered, ...)     *)
(* are not carried.                                                        *)
(***************************************************************************)
EXTENDS Integers, Sequences, FiniteSets

VARIABLES
    script,     \* "app" (app.py) or "app2" (app-2.py): the script this process runs
    csvDaily,   \* rows of data/day.csv, in file order
    csvHourly,  \* rows of data/hour.csv, in file order (read by app2 only)
    cache,      \* the st.cache_data entry of load_data: <<>> or <<value>>
    loads,      \* how many times the body of load_data has executed
    selection,  \* what st.sidebar.date_input returned in the last run
    out         \* what the last run of the script produced

vars == <<script, csvDaily, csvHourly, cache, loads, selection, out>>

----------------------------------------------------------------------------
(* Bounds of the model. *)

MaxRows == 4      \* rows of a daily table
MaxCnt == 3       \* largest rental count of a row
MaxAggRows == 2   \* rows of a table whose grouping keys vary
NumKeys == 2      \* distinct values of a grouping key (season, weathersit, hr, weekday)

----------------------------------------------------------------------------
(* Sequences. *)

Range(s) == {s[i] : i \in 1..Len(s)}

SetMin(S) == CHOOSE x \in S : \A y \in S : x <= y

SetMax(S) == CHOOSE x \in S : \A y \in S : x >= y

RECURSIVE SortSeq(_)
SortSeq(s) ==
    IF s = <<>> THEN <<>>
    ELSE LET m == SetMin(Range(s))
             i == CHOOSE j \in 1..Len(s) : s[j] = m
         IN  <<m>> \o SortSeq(SubSeq(s, 1, i - 1) \o SubSeq(s, i + 1, Len(s)))

Column(df, c) == [i \in 1..Len(df) |-> df[i][c]]

----------------------------------------------------------------------------
(* Loading. *)

TicksPerDay == 24

(* pd.to_datetime of a date: the timestamp of its midnight. *)
ToDatetime(d) == d * TicksPerDay

(* .dt.days of a difference of timestamps. *)
Days(delta) == delta \div TicksPerDay

ParseDates(rows) == [i \in 1..Len(rows) |-> [rows[i] EXCEPT !.dteday = ToDatetime(@)]]

(* The body of load_data: app.py returns the daily table, app-2.py the
   hourly and the daily table. *)
LoadData(s, daily, hourly) ==
    IF s = "app" THEN [daily |-> ParseDates(daily), hourly |-> <<>>]
    ELSE [daily |-> ParseDates(daily), hourly |-> ParseDates(hourly)]

(* st.cache_data around load_data: the body runs on a miss only, and every
   call hands the script its own copy of the stored value. *)
(* The decorator missing: every call runs the body. *)
CacheNeverHits(c) == FALSE

CacheHit(c) == c # <<>>

CachedLoad(c, s, daily, hourly) ==
    IF CacheHit(c) THEN [value |-> c[1], cache |-> c, ran |-> 0]
    ELSE LET v == LoadData(s, daily, hourly)
         IN  [value |-> v, cache |-> <<v>>, ran |-> 1]

----------------------------------------------------------------------------
(* The date picker and the date filter. *)

MinDate(df) == SetMin(Range(Column(df, "dteday")))

MaxDate(df) == SetMax(Range(Column(df, "dteday")))

(* value=(min, max): what the picker returns before the user touches it. *)
DefaultRange(df) == <<Days(MinDate(df)), Days(MaxDate(df))>>

(* The days the picker lets the user choose: app.py passes min_value and
   max_value, app-2.py does not and the picker reaches past the data. *)
PickerDays(s, df) ==
    IF s = "app" THEN Days(MinDate(df))..Days(MaxDate(df))
    ELSE (Days(MinDate(df)) - 1)..(Days(MaxDate(df)) + 1)

(* A range picker returns (start, end) with start <= end, or (start,) while
   the user has picked only the first date. *)
PickerValues(s, df) ==
    LET D == PickerDays(s, df)
    IN  {r \in D \X D : r[1] <= r[2]} \cup {<<a>> : a \in D}

(* The end of the range left out: dteday < end. *)
DateFilterExclusiveEnd(df, start, end) ==
    LET InRange(r) == r.dteday >= ToDatetime(start) /\ r.dteday < ToDatetime(end)
    IN  SelectSeq(df, InRange)

(* df[(df['dteday'] >= start) & (df['dteday'] <= end)] *)
DateFilter(df, start, end) ==
    LET InRange(r) == r.dteday >= ToDatetime(start) /\ r.dteday <= ToDatetime(end)
    IN  SelectSeq(df, InRange)

----------------------------------------------------------------------------
(* Aggregation.  A mean is kept as its sum and its count. *)

Sum(s) == LET RECURSIVE Acc(_)
              Acc(i) == IF i = 0 THEN 0 ELSE s[i] + Acc(i - 1)
          IN  Acc(Len(s))

GroupOf(df, c, k) ==
    LET HasKey(r) == r[c] = k
    IN  SelectSeq(df, HasKey)

Reduce(df, c, k) ==
    LET g == GroupOf(df, c, k)
    IN  [key |-> k, sum |-> Sum(Column(g, "cnt")), count |-> Len(g)]

(* df.groupby(c)['cnt'].mean().reset_index() on a plain column: one output
   row per key found in the rows, in ascending order of the key. *)
GroupBy(df, c) ==
    LET keys == SortSeq(Column(df, c))
        first == SelectSeq([i \in 1..Len(keys) |-> <<i, keys[i]>>],
                           LAMBDA p : p[1] = 1 \/ keys[p[1] - 1] # p[2])
    IN  [i \in 1..Len(first) |-> Reduce(df, c, first[i][2])]

(* observed=True: only the categories some row has. *)
GroupByObserved(df, c, categories) ==
    LET present == SelectSeq(categories, LAMBDA k : GroupOf(df, c, k) # <<>>)
    IN  [i \in 1..Len(present) |-> Reduce(df, c, present[i])]

(* df.groupby(c, observed=False) on a categorical column: one output row per
   category of the column, in category order, whether or not a row has it. *)
GroupByCategorical(df, c, categories) ==
    [i \in 1..Len(categories) |-> Reduce(df, c, categories[i])]

----------------------------------------------------------------------------
(* pd.qcut(x, q=4, labels=...). *)

Q == 4

(* Q times the k/Q quantile of the sorted values, by linear interpolation
   between the two order statistics around position (n - 1) * k / Q. *)
Quantile(sorted, k) ==
    LET pos == (Len(sorted) - 1) * k
        i == pos \div Q
        r == pos % Q
    IN  IF r = 0 THEN Q * sorted[i + 1]
        ELSE Q * sorted[i + 1] + r * (sorted[i + 2] - sorted[i + 1])

(* The Q + 1 bin edges, times Q; none (NaN) for an empty column. *)
BinEdges(x) ==
    IF x = <<>> THEN <<>>
    ELSE LET sorted == SortSeq(x) IN [k \in 1..(Q + 1) |-> Quantile(sorted, k - 1)]

(* duplicates='drop': repeated edges are accepted. *)
QcutNeverRaises(x) == FALSE

(* duplicates='raise': ValueError("Bin edges must be unique") *)
QcutRaises(x) == Cardinality(Range(BinEdges(x))) < Q + 1

(* bins.searchsorted(x, side='left'), with the lowest value put in bin 1
   (include_lowest). *)
BinOf(edges, v) ==
    IF Q * v = edges[1] THEN 1
    ELSE Cardinality({k \in 1..(Q + 1) : edges[k] < Q * v})

Qcut(x, labels) ==
    LET edges == BinEdges(x)
    IN  [i \in 1..Len(x) |-> labels[BinOf(edges, x[i])]]

----------------------------------------------------------------------------
(* app-2.py, tab4: RFM quartiles, score and segment. *)

r_labels_ascending == <<1, 2, 3, 4>>

r_labels == <<4, 3, 2, 1>>

f_labels_reversed == <<4, 3, 2, 1>>

f_labels == <<1, 2, 3, 4>>

m_labels_reversed == <<4, 3, 2, 1>>

m_labels == <<1, 2, 3, 4>>

Recency(df) ==
    IF df = <<>> THEN <<>>
    ELSE LET last_date == MaxDate(df)
         IN  [i \in 1..Len(df) |-> Days(last_date - df[i].dteday)]

(* The wrong column binned as Frequency. *)
FrequencyOfRecency(df) == Recency(df)

Frequency(df) == Column(df, "cnt")

Monetary(df) == Column(df, "cnt")

Str(d) == <<"1", "2", "3", "4">>[d]

RFM_Score(R, F, M) == <<Str(R), Str(F), Str(M)>>

(* The first rule with > in place of >=. *)
segment_customers_strict(R, F, M) ==
    IF R > 3 /\ F > 3 /\ M > 3 THEN "Best Customers"
    ELSE IF R >= 3 /\ F >= 3 THEN "Loyal Customers"
    ELSE IF R >= 3 THEN "Recent Customers"
    ELSE IF F >= 3 /\ M >= 3 THEN "High Value"
    ELSE "Lost Customers"

segment_customers(R, F, M) ==
    IF R >= 3 /\ F >= 3 /\ M >= 3 THEN "Best Customers"
    ELSE IF R >= 3 /\ F >= 3 THEN "Loyal Customers"
    ELSE IF R >= 3 THEN "Recent Customers"
    ELSE IF F >= 3 /\ M >= 3 THEN "High Value"
    ELSE "Lost Customers"

----------------------------------------------------------------------------
(* One run of a script.  `status` tells how the run ended: "ok", or the
   step whose exception ended it; what a run never reached stays empty. *)

Blank ==
    [status |-> "none", start |-> <<>>, daily |-> <<>>, hourly |-> <<>>,
     total_rentals |-> 0, total_days |-> 0,
     seasonal_avg |-> <<>>, weather_avg |-> <<>>,
     hourly_pattern |-> <<>>, weekday_data |-> <<>>,
     rfm_data |-> <<>>, rental_segment |-> <<>>, segment_avg |-> <<>>,
     R |-> <<>>, F |-> <<>>, M |-> <<>>,
     RFM_Score |-> <<>>, Customer_Segment |-> <<>>]

segment_labels == <<"Low", "Medium", "High", "Very High">>

(* app.py, tab2: per season, days since its last date, row count, mean count. *)
SeasonRfm(df) ==
    LET last_date == MaxDate(df) + ToDatetime(1)
        g == GroupBy(df, "season")
    IN  [i \in 1..Len(g) |->
            [season |-> g[i].key,
             Recency |-> Days(last_date - MaxDate(GroupOf(df, "season", g[i].key))),
             Frequency |-> g[i].count,
             Average_Rentals |-> <<g[i].sum, g[i].count>>]]

(* app.py, lines 26-174. *)
RunApp(loaded, date_range) ==
    LET begun == [Blank EXCEPT !.start = loaded]
    IN
    IF Len(date_range) # 2 THEN [begun EXCEPT !.status = "abort_range"]
    ELSE
    LET daily_df == DateFilter(loaded.daily, date_range[1], date_range[2])
        tab1 == [begun EXCEPT
                    !.daily = daily_df,
                    !.total_rentals = Sum(Column(daily_df, "cnt")),
                    !.total_days = Len(daily_df),
                    !.seasonal_avg = GroupBy(daily_df, "season"),
                    !.weather_avg = GroupBy(daily_df, "weathersit")]
    IN
    IF daily_df = <<>> THEN [tab1 EXCEPT !.status = "abort_scaler"]
    ELSE
    LET tab2 == [tab1 EXCEPT !.rfm_data = SeasonRfm(daily_df)]
        cnt == Column(daily_df, "cnt")
    IN
    IF QcutRaises(cnt) THEN [tab2 EXCEPT !.status = "abort_qcut"]
    ELSE
    LET rental_segment == Qcut(cnt, segment_labels)
        segmented == [i \in 1..Len(daily_df) |->
                         [cnt |-> daily_df[i].cnt, rental_segment |-> rental_segment[i]]]
    IN  [tab2 EXCEPT
            !.status = "ok",
            !.rental_segment = rental_segment,
            !.segment_avg = GroupByCategorical(segmented, "rental_segment", segment_labels)]

(* app-2.py, lines 27-173. *)
RunApp2(loaded, date_range) ==
    LET begun == [Blank EXCEPT !.start = loaded]
    IN
    IF Len(date_range) # 2 THEN [begun EXCEPT !.status = "abort_range"]
    ELSE
    LET hourly_df == DateFilter(loaded.hourly, date_range[1], date_range[2])
        daily_df == DateFilter(loaded.daily, date_range[1], date_range[2])
        tab3 == [begun EXCEPT
                    !.daily = daily_df,
                    !.hourly = hourly_df,
                    !.total_rentals = Sum(Column(daily_df, "cnt")),
                    !.hourly_pattern = GroupBy(hourly_df, "hr"),
                    !.weekday_data = GroupBy(hourly_df, "weekday")]
        rec == Recency(daily_df)
        frq == Frequency(daily_df)
        mon == Monetary(daily_df)
    IN
    IF QcutRaises(rec) \/ QcutRaises(frq) \/ QcutRaises(mon)
    THEN [tab3 EXCEPT !.status = "abort_qcut"]
    ELSE
    LET r_quartiles == Qcut(rec, r_labels)
        f_quartiles == Qcut(frq, f_labels)
        m_quartiles == Qcut(mon, m_labels)
        rows == 1..Len(daily_df)
    IN  [tab3 EXCEPT
            !.status = "ok",
            !.R = r_quartiles,
            !.F = f_quartiles,
            !.M = m_quartiles,
            !.RFM_Score = [i \in rows |->
                RFM_Score(r_quartiles[i], f_quartiles[i], m_quartiles[i])],
            !.Customer_Segment = [i \in rows |->
                segment_customers(r_quartiles[i], f_quartiles[i], m_quartiles[i])]]

RunScript(s, loaded, date_range) ==
    IF s = "app" THEN RunApp(loaded, date_range) ELSE RunApp2(loaded, date_range)

----------------------------------------------------------------------------
(* The data files.  Both are ordered by date and hold every day of the
   period they cover; day.csv holds one row per day, and the tables below
   also cover several rows on one day. *)

DailyRow(d, c, se, w) == [dteday |-> d, cnt |-> c, season |-> se, weathersit |-> w]

HourlyRow(d, h, wd, c) == [dteday |-> d, hr |-> h, weekday |-> wd, cnt |-> c]

(* Days of n rows in file order: from day 1 on, no day left out. *)
DayColumns(n) ==
    {d \in [1..n -> 1..n] :
        d[1] = 1 /\ \A i \in 1..(n - 1) : d[i + 1] - d[i] \in {0, 1}}

(* One row per day, any counts. *)
OnePerDay ==
    UNION {{[i \in 1..n |-> DailyRow(i, c[i], 1, 1)] : c \in [1..n -> 1..MaxCnt]} :
              n \in 1..MaxRows}

(* One row per day, the counts 1, 2, ..., n in any order. *)
Permuted ==
    UNION {{[i \in 1..n |-> DailyRow(i, c[i], 1, 1)] :
                c \in {f \in [1..n -> 1..n] : \A a, b \in 1..n : f[a] = f[b] => a = b}} :
              n \in 1..MaxRows}

(* Days may repeat; the counts are 1, 2, ..., n down the file. *)
RepeatedDays ==
    UNION {{[i \in 1..n |-> DailyRow(d[i], i, 1, 1)] : d \in DayColumns(n)} :
              n \in 1..MaxRows}

(* One row per day, any season and weather codes. *)
KeyedDaily ==
    UNION {{[i \in 1..n |-> DailyRow(i, i, k[i][1], k[i][2])] :
                k \in [1..n -> (1..NumKeys) \X (1..NumKeys)]} :
              n \in 1..MaxAggRows}

(* One row per day, any hour and weekday, one rental per row. *)
KeyedHourly ==
    UNION {{[i \in 1..n |-> HourlyRow(i, k[i][1], k[i][2], 1)] :
                k \in [1..n -> (0..(NumKeys - 1)) \X (0..(NumKeys - 1))]} :
              n \in 1..MaxAggRows}

(* hour.csv of a day.csv: the count of each daily row in its hour 0. *)
HoursOf(daily) ==
    [i \in 1..Len(daily) |-> HourlyRow(daily[i].dteday, 0, 0, daily[i].cnt)]

(* day.csv of an hour.csv: one row per day, the total of its hours. *)
DaysOf(hourly) ==
    LET g == GroupBy(hourly, "dteday")
    IN  [i \in 1..Len(g) |-> DailyRow(g[i].key, g[i].sum, 1, 1)]

----------------------------------------------------------------------------
(* The state machine. *)

Init ==
    /\ script \in {"app", "app2"}
    /\ \/ /\ csvDaily \in OnePerDay \cup Permuted \cup RepeatedDays
          /\ csvHourly = IF script = "app" THEN <<>> ELSE HoursOf(csvDaily)
       \/ /\ script = "app"
          /\ csvDaily \in KeyedDaily
          /\ csvHourly = <<>>
       \/ /\ script = "app2"
          /\ csvHourly \in KeyedHourly
          /\ csvDaily = DaysOf(csvHourly)
    /\ cache = <<>>
    /\ loads = 0
    /\ selection = <<>>
    /\ out = Blank

(* The script filtering the stored value itself. *)
StoredFiltered(stored, result) ==
    <<[daily |-> result.daily, hourly |-> result.hourly]>>

(* The cache entry once the script has run: the script filters and extends
   its own copy (daily_df is rebound to the filtered rows, rental_segment is
   added to those), never the stored value. *)
StoredAfterRun(stored, result) == stored

(* One run of the script, the picker returning date_range. *)
Rerun(date_range) ==
    LET got == CachedLoad(cache, script, csvDaily, csvHourly)
        result == RunScript(script, got.value, date_range)
    IN  /\ date_range \in PickerValues(script, got.value.daily)
        /\ cache' = StoredAfterRun(got.cache, result)
        /\ loads' = loads + got.ran
        /\ selection' = date_range
        /\ out' = result
        /\ UNCHANGED <<script, csvDaily, csvHourly>>

(* The first run of a session: the picker holds its default value. *)
Start ==
    /\ out.status = "none"
    /\ Rerun(DefaultRange(LoadData(script, csvDaily, csvHourly).daily))

(* The user changes the date range (or reruns with it unchanged). *)
ChangeRange ==
    /\ out.status # "none"
    /\ \E r \in PickerValues(script, out.start.daily) : Rerun(r)

Next == Start \/ ChangeRange

Spec == Init /\ [][Next]_vars

(* segment_customers on its own: rfm_df.apply(segment_customers, axis=1) over
   a one-row table holding any quartile labels R, F, M. *)
InitSegment ==
    /\ script = "app2"
    /\ csvDaily = <<>>
    /\ csvHourly = <<>>
    /\ cache = <<>>
    /\ loads = 0
    /\ selection = <<>>
    /\ \E R \in 1..Q, F \in 1..Q, M \in 1..Q :
          out = [Blank EXCEPT !.R = <<R>>, !.F = <<F>>, !.M = <<M>>]

ApplySegment ==
    /\ out.Customer_Segment = <<>>
    /\ out' = [out EXCEPT
                  !.status = "ok",
                  !.RFM_Score = <<RFM_Score(out.R[1], out.F[1], out.M[1])>>,
                  !.Customer_Segment = <<segment_customers(out.R[1], out.F[1], out.M[1])>>]
    /\ UNCHANGED <<script, csvDaily, csvHourly, cache, loads, selection>>

NextSegment == ApplySegment

SpecSegment == InitSegment /\ [][NextSegment]_vars

----------------------------------------------------------------------------
(* Properties. *)

Loaded == LoadData(script, csvDaily, csvHourly)

Rows(col) == DOMAIN col

Filtered == out.status \notin {"none", "abort_range"}

Segmented == script = "app2" /\ out.status = "ok"

SegmentNames ==
    {"Best Customers", "Loyal Customers", "Recent Customers", "High Value",
     "Lost Customers"}

(* C1: every combination of quartile labels R, F, M in 1..4 gets one label,
   one of the five segment names; R, F and M all >= 3 gives "Best Customers",
   and a combination no earlier rule matches (R < 3, and not both F and M
   >= 3) gives "Lost Customers". *)
C1_SegmentTotal ==
    \A i \in Rows(out.Customer_Segment) :
        LET R == out.R[i]
            F == out.F[i]
            M == out.M[i]
            label == out.Customer_Segment[i]
        IN  /\ label \in SegmentNames
            /\ (R >= 3 /\ F >= 3 /\ M >= 3) => label = "Best Customers"
            /\ (~(R >= 3) /\ ~(F >= 3 /\ M >= 3)) => label = "Lost Customers"

C1_Witness ==
    /\ out.Customer_Segment = <<"Lost Customers">>
    /\ out.R = <<2>> /\ out.F = <<4>> /\ out.M = <<1>>

(* C2: on a segmented daily table, a row with a higher count never has a
   lower Frequency label, nor a lower Monetary label, than a row with a
   lower count. *)
C2_QuartilesMonotonic ==
    Segmented =>
        \A a, b \in Rows(out.daily) :
            out.daily[a].cnt > out.daily[b].cnt =>
                out.F[a] >= out.F[b] /\ out.M[a] >= out.M[b]

C2_Witness ==
    /\ Segmented
    /\ Len(out.daily) = 4
    /\ \E a, b \in Rows(out.daily) :
          /\ a < b
          /\ out.daily[a].cnt > out.daily[b].cnt
          /\ out.F[a] > out.F[b]
    /\ \E a, b \in Rows(out.daily) :
          a # b /\ out.daily[a].cnt = out.daily[b].cnt

InRange(r, range) ==
    r.dteday >= ToDatetime(range[1]) /\ r.dteday <= ToDatetime(range[2])

Kept(df, range) == {i \in Rows(df) : InRange(df[i], range)}

(* C3: the date filter keeps exactly the rows with start <= dteday <= end,
   and with the range from the first to the last date of the loaded table
   the filtered daily table (and in app2 the filtered hourly table) is the
   loaded table, row for row. *)
C3_FullRangeKeepsAll ==
    Filtered =>
        /\ \A i \in Rows(out.daily) : InRange(out.daily[i], selection)
        /\ Len(out.daily) = Cardinality(Kept(Loaded.daily, selection))
        /\ Len(out.hourly) = Cardinality(Kept(Loaded.hourly, selection))
        /\ selection = DefaultRange(Loaded.daily) =>
              out.daily = Loaded.daily /\ out.hourly = Loaded.hourly

C3_Witness ==
    /\ Filtered
    /\ script = "app2"
    /\ selection = DefaultRange(Loaded.daily)
    /\ selection[1] < selection[2]
    /\ Len(out.daily) = 4
    /\ Len(out.hourly) = 4
    /\ out.daily[3].dteday = ToDatetime(selection[2])

Keys(df, c) == {df[i][c] : i \in Rows(df)}

(* C4 as stated: every group-by output, the rental_segment one included, has
   as many rows as there are distinct keys in the filtered rows. *)
C4_GroupCountIsKeysPresent ==
    Filtered =>
        /\ script = "app" => Len(out.seasonal_avg) = Cardinality(Keys(out.daily, "season"))
        /\ script = "app" => Len(out.weather_avg) = Cardinality(Keys(out.daily, "weathersit"))
        /\ Len(out.hourly_pattern) = Cardinality(Keys(out.hourly, "hr"))
        /\ Len(out.weekday_data) = Cardinality(Keys(out.hourly, "weekday"))
        /\ (script = "app" /\ out.status = "ok") =>
              Len(out.segment_avg) = Cardinality(Range(out.rental_segment))

(* C4, amended: the group-by outputs by season, weathersit, hr and weekday
   have as many rows as there are distinct keys in the filtered rows; the
   rental_segment output (observed=False) has four rows, one per category
   in category order, whenever the binning succeeds, a category no row has
   being an empty group. *)
C4_GroupCounts ==
    Filtered =>
        /\ script = "app" => Len(out.seasonal_avg) = Cardinality(Keys(out.daily, "season"))
        /\ script = "app" => Len(out.weather_avg) = Cardinality(Keys(out.daily, "weathersit"))
        /\ Len(out.hourly_pattern) = Cardinality(Keys(out.hourly, "hr"))
        /\ Len(out.weekday_data) = Cardinality(Keys(out.hourly, "weekday"))
        /\ (script = "app" /\ out.status = "ok") =>
              /\ Len(out.segment_avg) = Len(segment_labels)
              /\ \A k \in 1..Len(segment_labels) :
                    /\ out.segment_avg[k].key = segment_labels[k]
                    /\ out.segment_avg[k].count =
                          Cardinality({i \in Rows(out.rental_segment) :
                                          out.rental_segment[i] = segment_labels[k]})

C4_Witness ==
    /\ script = "app"
    /\ out.status = "ok"
    /\ Len(out.seasonal_avg) = 2
    /\ Len(out.weather_avg) = 1
    /\ Len(out.daily) = 2
    /\ Cardinality(Range(out.rental_segment)) = 2
    /\ Len(out.segment_avg) = 4

FourDistinctCounts ==
    /\ Len(out.daily) = 4
    /\ \A a, b \in Rows(out.daily) : out.daily[a].cnt = out.daily[b].cnt => a = b

(* The rank of row a among the counts of the filtered daily table. *)
RankOfCount(a) ==
    Cardinality({b \in Rows(out.daily) : out.daily[b].cnt <= out.daily[a].cnt})

(* C5 as stated: four filtered daily rows with pairwise distinct counts,
   whatever their recency (identical recency included), get the Frequency
   labels 1, 2, 3, 4 in ascending order of count. *)
C5_FourRowsLabelled ==
    (script = "app2" /\ Filtered /\ FourDistinctCounts) =>
        /\ Rows(out.F) = Rows(out.daily)
        /\ \A a \in Rows(out.F) : out.F[a] = RankOfCount(a)

(* C5, amended: four filtered daily rows with pairwise distinct counts get
   the Frequency labels 1, 2, 3, 4 in ascending order of count whenever the
   Recency binning succeeds too; with identical recency (the four rows on
   one date) the Recency binning raises before Frequency is binned, and no
   row gets a Frequency label. *)
C5_FourRowsLabelledIfRecencyBins ==
    (script = "app2" /\ Filtered /\ FourDistinctCounts) =>
        /\ out.status = "ok" =>
              /\ Rows(out.F) = Rows(out.daily)
              /\ \A a \in Rows(out.F) : out.F[a] = RankOfCount(a)
        /\ ~QcutRaises(Recency(out.daily)) => out.status = "ok"
        /\ Cardinality(Keys(out.daily, "dteday")) = 1 =>
              out.status = "abort_qcut" /\ out.F = <<>>

C5_Witness ==
    /\ script = "app2"
    /\ out.status = "ok"
    /\ FourDistinctCounts
    /\ out.daily[1].cnt > out.daily[2].cnt
    /\ out.F[1] = 3 /\ out.F[2] = 1

(* C6: the body of load_data runs at most once, in the first run; every
   run, the later ones included, starts from a table equal to the one that
   load produced. *)
C6_LoadedOnce ==
    /\ loads <= 1
    /\ out.status = "none" => loads = 0 /\ cache = <<>>
    /\ out.status # "none" => loads = 1 /\ out.start = Loaded /\ cache = <<Loaded>>

C6_Witness ==
    /\ loads = 1
    /\ out.status = "ok"
    /\ Len(selection) = 2
    /\ selection # DefaultRange(Loaded.daily)
    /\ Len(out.daily) < Len(Loaded.daily)

(* C7: every run starts from the originally loaded table and its outputs
   are a function of that table and of the current selection only; the
   filtering and the added column of earlier runs leave the cached table as
   it was. *)
C7_NothingPersists ==
    out.status # "none" =>
        /\ out.start = Loaded
        /\ cache = <<Loaded>>
        /\ out = RunScript(script, Loaded, selection)

C7_Witness ==
    /\ script = "app"
    /\ out.status = "ok"
    /\ selection # DefaultRange(Loaded.daily)
    /\ Len(out.daily) < Len(Loaded.daily)
    /\ out.rental_segment # <<>>

(* C8: on a segmented daily table, a row with a later date never has a
   lower R label than a row with an earlier date; the rows of the most
   recent date (Recency 0) have R = 4 and the rows of the oldest date
   R = 1. *)
C8_RecencyReversed ==
    Segmented =>
        /\ \A a, b \in Rows(out.daily) :
              out.daily[a].dteday > out.daily[b].dteday => out.R[a] >= out.R[b]
        /\ \A a \in Rows(out.daily) :
              /\ out.daily[a].dteday = MaxDate(out.daily) => out.R[a] = 4
              /\ out.daily[a].dteday = MinDate(out.daily) => out.R[a] = 1

C8_Witness ==
    /\ Segmented
    /\ Len(out.daily) = 4
    /\ out.R = <<1, 2, 3, 4>>

StrictlyIncreasing(edges) ==
    /\ Len(edges) = Q + 1
    /\ \A k \in 1..Q : edges[k] < edges[k + 1]

(* The binned columns of the filtered set all have five strictly
   increasing cut points. *)
Binnable ==
    IF script = "app" THEN StrictlyIncreasing(BinEdges(Column(out.daily, "cnt")))
    ELSE /\ StrictlyIncreasing(BinEdges(Recency(out.daily)))
         /\ StrictlyIncreasing(BinEdges(Column(out.daily, "cnt")))

NothingBinned ==
    /\ out.rental_segment = <<>> /\ out.segment_avg = <<>>
    /\ out.R = <<>> /\ out.F = <<>> /\ out.M = <<>>
    /\ out.RFM_Score = <<>> /\ out.Customer_Segment = <<>>

(* C9: when the cut points of a binned column of the filtered set are not
   five strictly increasing edges, the run ends at the binning step: no
   row gets a quartile label, a score or a segment, nothing after the
   binning is produced, and the cached table is left as loaded; a run
   whose columns can all be binned succeeds. *)
C9_BinningFailureAborts ==
    Filtered =>
        /\ ~Binnable => out.status = "abort_qcut" /\ NothingBinned
        /\ Binnable => out.status = "ok"
        /\ cache = <<Loaded>>

C9_Witness ==
    /\ out.status = "abort_qcut"
    /\ Len(out.daily) = 1
    /\ Len(Loaded.daily) = 4
    /\ out.total_rentals > 0

(* C10: in app2 every segmented row has F = M, the second and third
   characters of its RFM_Score are equal, and no row is labelled
   "Loyal Customers". *)
C10_LoyalNeverAssigned ==
    Segmented =>
        \A i \in Rows(out.daily) :
            /\ out.F[i] = out.M[i]
            /\ out.RFM_Score[i][2] = out.RFM_Score[i][3]
            /\ out.Customer_Segment[i] # "Loyal Customers"

C10_Witness ==
    /\ Segmented
    /\ Range(out.Customer_Segment) =
          {"Best Customers", "Recent Customers", "High Value", "Lost Customers"}

====
